---------------------------- MODULE Spec2Model ----------------------------
(***************************************************************************)
(* A model of the AccessibilityUI contract (src/unnamed/part_000) and of    *)
(* the preference catalog its web client keeps in a key-value store        *)
(* (src/frontend/web/src/App.tsx).                                         *)
(*                                                                         *)
(* Every public function of the contract is one action.  A transaction     *)
(* that reverts leaves the storage as it was and emits nothing; only the   *)
(* receipt of the transaction (the variable last) records it.              *)
(*                                                                         *)
(* The FHE library is modelled by a plaintext-transparent backend: a       *)
(* handle carries the 32-bit value it encrypts, and the handle of no       *)
(* ciphertext (bytes32(0)) is the uninitialized handle.                    *)
(***************************************************************************)
EXTENDS Integers, Sequences, FiniteSets, TLC

VARIABLES
    userPreferences,   \* mapping(address => EncryptedPreferences)
    uiAdjustments,     \* mapping(address => UIAdjustment)
    defaultAdjustment, \* UIAdjustment public defaultAdjustment
    now,               \* block.timestamp of the block being built
    counterRequest,    \* the FHE library's next decryption request id
    requestedHandles,  \* the FHE library's handles saved per request id
    last,              \* receipt of the last transaction: call, status, events
    clock,             \* the browser's clock, in seconds
    data,              \* the key-value store behind contract.setData / getData
    pc,                \* where each client stands: at its mount, idle, or in submitPreference
    prefId,            \* submitPreference's prefId, per client
    prefData,          \* submitPreference's prefData, per client
    keys,              \* submitPreference's keys, per client
    transactionStatus, \* the transactionStatus each client shows
    timers,            \* the due times of each client's pending setTimeout
    preferences,       \* the list each client shows (setPreferences)
    loads,             \* where each call of loadPreferences stands, its keys and list
    calls,             \* the number of handler calls the users have made so far
    registered         \* the prefIds of the submissions that reported success

\* the variables of the contract
contract == <<userPreferences, uiAdjustments, defaultAdjustment, now,
              counterRequest, requestedHandles, last>>

\* the variables of the catalog and of its clients
catalog == <<clock, data, pc, prefId, prefData, keys, transactionStatus, timers,
             preferences, loads, calls, registered>>

vars == <<userPreferences, uiAdjustments, defaultAdjustment, now,
          counterRequest, requestedHandles, last,
          clock, data, pc, prefId, prefData, keys, transactionStatus, timers,
          preferences, loads, calls, registered>>

-----------------------------------------------------------------------------
(* Bounds of the model *)

\* block timestamps run from DeployTime to MaxTime
MaxTime == 2

\* at most MaxRequests decryption requests are issued
MaxRequests == 2

\* the users make at most MaxCalls calls of the handlers submitPreference and
\* checkAvailability
MaxCalls == 2

\* the browser's clock runs from StartClock to MaxClock
MaxClock == 3

-----------------------------------------------------------------------------
(* Addresses *)

Owners == {"alice", "bob"}

NoAddress == "0x0"

\* the callback is public: any address may call it
Callers == Owners

-----------------------------------------------------------------------------
(* uint32 values *)

\* A uint32 is kept as two 16-bit limbs <<hi, lo>>, standing for hi * Limb + lo,
\* so that 32-bit arithmetic is computed exactly and wraps at 2^32.
Limb == 65536

U32(n) == <<n \div Limb, n % Limb>>

MaxU32 == <<Limb - 1, Limb - 1>>

\* a + b in uint32 arithmetic (wrapping)
add32(a, b) ==
    LET lo == a[2] + b[2]
        hi == a[1] + b[1] + (lo \div Limb)
    IN  <<hi % Limb, lo % Limb>>

\* a - b in uint32 arithmetic (wrapping)
sub32(a, b) ==
    LET borrow == IF a[2] < b[2] THEN 1 ELSE 0
        lo == a[2] + borrow * Limb - b[2]
        hi == a[1] + 2 * Limb - b[1] - borrow
    IN  <<hi % Limb, lo>>

\* a / b in uint32 arithmetic, for a divisor below 2^15 (the contract divides
\* by 10, 5 and 2): schoolbook division, limb by limb
div32(a, b) ==
    LET d == b[2]
        r == a[1] % d
    IN  <<a[1] \div d, (r * Limb + a[2]) \div d>>

-----------------------------------------------------------------------------
(* euint32 handles under the plaintext-transparent backend *)

\* bytes32(0), the handle of no ciphertext
NullHandle == [ct |-> <<>>]

isInitialized(h) == h # NullHandle

\* trivial encryption: the handle of the ciphertext of v
asEuint32(v) == [ct |-> v]

\* the value a handle stands for; the library replaces an uninitialized
\* operand by asEuint32(0) before it computes
Plain(h) == IF isInitialized(h) THEN h.ct ELSE U32(0)

FHEadd(a, b) == asEuint32(add32(Plain(a), Plain(b)))

\* a subtraction that stops at zero
FHEsub_Floored(a, b) ==
    IF \/ Plain(b)[1] < Plain(a)[1]
       \/ (Plain(b)[1] = Plain(a)[1] /\ Plain(b)[2] <= Plain(a)[2])
    THEN asEuint32(sub32(Plain(a), Plain(b)))
    ELSE asEuint32(U32(0))

FHEsub(a, b) == asEuint32(sub32(Plain(a), Plain(b)))

FHEdiv(a, b) == asEuint32(div32(Plain(a), Plain(b)))

\* the bytes32 word of a handle, as handed to the decryption oracle
toBytes32(h) == h.ct

-----------------------------------------------------------------------------
(* Storage records *)

\* a deleted or never written EncryptedPreferences slot
EmptyPreferences ==
    [visionSettings |-> NullHandle, hearingSettings |-> NullHandle,
     mobilitySettings |-> NullHandle, cognitiveSettings |-> NullHandle,
     lastUpdated |-> 0]

\* a deleted or never written UIAdjustment slot
EmptyAdjustment ==
    [fontSize |-> NullHandle, contrastRatio |-> NullHandle,
     volumeLevel |-> NullHandle, animationSpeed |-> NullHandle,
     lastCalculated |-> 0]

DefaultFontSize == 16

DefaultContrastRatio == 4

DefaultVolumeLevel == 50

DefaultAnimationSpeed == 3

DeployTime == 1

\* the handle of the ciphertext of the number n
Enc(n) == asEuint32(U32(n))

\* the tuples of handles a caller passes to updatePreferences: the first
\* owner tries them all, the other owners the first one
ExampleTuple == <<Enc(40), Enc(60), Enc(0), Enc(30)>>

InputTuples(sender) ==
    IF sender = "alice"
    THEN { ExampleTuple,
           <<Enc(40), Enc(60), Enc(7), Enc(30)>>,
           <<asEuint32(MaxU32), asEuint32(MaxU32), Enc(0), Enc(40)>>,
           <<Enc(40), Enc(60), NullHandle, Enc(30)>>,
           <<NullHandle, Enc(60), Enc(0), Enc(30)>> }
    ELSE { ExampleTuple }

-----------------------------------------------------------------------------
(* Receipts and events *)

Ok == "ok"

PreferencesNotSet == "Preferences not set"

AdjustmentsNotCalculated == "Adjustments not calculated"

NoHandleFoundForRequestID == "NoHandleFoundForRequestID"

InvalidKMSSignatures == "InvalidKMSSignatures"

DecodeFailed == "abi.decode reverted"

NoRequest == -1

\* the request ids a callback may name; MaxRequests itself is never issued
RequestIds == 0..MaxRequests

Event(name, user, timestamp) ==
    [name |-> name, user |-> user, timestamp |-> timestamp]

\* the receipt of a transaction: the call, how it ended, the events it emitted
\* and, for the decryption calls, the request id it concerned
Receipt(op, sender, status, events) ==
    [op |-> op, sender |-> sender, status |-> status, events |-> events,
     requestId |-> NoRequest]

CallbackReceipt(sender, status, events, requestId) ==
    [op |-> "handleDecryptedAdjustments", sender |-> sender, status |-> status,
     events |-> events, requestId |-> requestId]

-----------------------------------------------------------------------------
(* Construction *)

Init ==
    /\ userPreferences = [o \in Owners |-> EmptyPreferences]
    /\ uiAdjustments = [o \in Owners |-> EmptyAdjustment]
    /\ defaultAdjustment =
           [fontSize |-> asEuint32(U32(DefaultFontSize)),
            contrastRatio |-> asEuint32(U32(DefaultContrastRatio)),
            volumeLevel |-> asEuint32(U32(DefaultVolumeLevel)),
            animationSpeed |-> asEuint32(U32(DefaultAnimationSpeed)),
            lastCalculated |-> DeployTime]
    /\ now = DeployTime
    /\ counterRequest = 0
    /\ requestedHandles = [r \in RequestIds |-> <<>>]
    /\ last = Receipt("constructor", NoAddress, Ok, <<>>)

\* a later block: block.timestamp grows
NewBlock ==
    /\ now < MaxTime
    /\ now' = now + 1
    /\ last' = Receipt("newBlock", NoAddress, Ok, <<>>)
    /\ UNCHANGED <<userPreferences, uiAdjustments, defaultAdjustment,
                   counterRequest, requestedHandles>>

\* what a reverted transaction leaves behind
Reverted ==
    UNCHANGED <<userPreferences, uiAdjustments, defaultAdjustment, now,
                counterRequest, requestedHandles>>

-----------------------------------------------------------------------------
(* updatePreferences *)

StoredPreferences(vision, hearing, mobility, cognitive, timestamp) ==
    [visionSettings |-> vision, hearingSettings |-> hearing,
     mobilitySettings |-> mobility, cognitiveSettings |-> cognitive,
     lastUpdated |-> timestamp]

\* an updatePreferences that merges: a member already stored is kept when the
\* handle supplied for it is uninitialized
updatePreferences_Merges(sender, vision, hearing, mobility, cognitive) ==
    /\ userPreferences' =
           [userPreferences EXCEPT
                ![sender] = StoredPreferences(
                    IF isInitialized(vision) THEN vision ELSE @.visionSettings,
                    hearing,
                    IF isInitialized(mobility) THEN mobility ELSE @.mobilitySettings,
                    cognitive, now)]
    /\ last' = Receipt("updatePreferences", sender, Ok,
                       <<Event("PreferencesUpdated", sender, now)>>)
    /\ UNCHANGED <<uiAdjustments, defaultAdjustment, now,
                   counterRequest, requestedHandles>>

\* an updatePreferences that clears the adjustments calculated from the
\* record it replaces
updatePreferences_ClearsAdjustments(sender, vision, hearing, mobility, cognitive) ==
    /\ userPreferences' =
           [userPreferences EXCEPT
                ![sender] = StoredPreferences(vision, hearing, mobility, cognitive, now)]
    /\ uiAdjustments' = [uiAdjustments EXCEPT ![sender] = EmptyAdjustment]
    /\ last' = Receipt("updatePreferences", sender, Ok,
                       <<Event("PreferencesUpdated", sender, now)>>)
    /\ UNCHANGED <<defaultAdjustment, now, counterRequest, requestedHandles>>

updatePreferences(sender, vision, hearing, mobility, cognitive) ==
    /\ userPreferences' =
           [userPreferences EXCEPT
                ![sender] = StoredPreferences(vision, hearing, mobility, cognitive, now)]
    /\ last' = Receipt("updatePreferences", sender, Ok,
                       <<Event("PreferencesUpdated", sender, now)>>)
    /\ UNCHANGED <<uiAdjustments, defaultAdjustment, now,
                   counterRequest, requestedHandles>>

-----------------------------------------------------------------------------
(* calculateAdjustments *)

\* a calculateAdjustments that forgot its require
PreferencesSet_NoRequire(prefs) == TRUE

\* require(FHE.isInitialized(prefs.visionSettings), "Preferences not set")
\* a require that asks for all four handles
PreferencesSet_AllFour(prefs) ==
    /\ isInitialized(prefs.visionSettings)
    /\ isInitialized(prefs.hearingSettings)
    /\ isInitialized(prefs.mobilitySettings)
    /\ isInitialized(prefs.cognitiveSettings)

PreferencesSet(prefs) == isInitialized(prefs.visionSettings)

\* a calculateAdjustments that clamps the animation speed at zero instead of
\* letting the subtraction wrap
ComputedAdjustment_Clamped(prefs, timestamp) ==
    LET slowdown == Plain(FHEdiv(prefs.cognitiveSettings, asEuint32(U32(10))))
        base == Plain(defaultAdjustment.animationSpeed)
    IN
    [fontSize |->
         FHEadd(defaultAdjustment.fontSize,
                FHEdiv(prefs.visionSettings, asEuint32(U32(10)))),
     contrastRatio |->
         FHEadd(defaultAdjustment.contrastRatio,
                FHEdiv(prefs.visionSettings, asEuint32(U32(5)))),
     volumeLevel |->
         FHEadd(defaultAdjustment.volumeLevel,
                FHEdiv(prefs.hearingSettings, asEuint32(U32(2)))),
     animationSpeed |->
         IF slowdown[1] > 0 \/ slowdown[2] > base[2]
         THEN asEuint32(U32(0))
         ELSE FHEsub(defaultAdjustment.animationSpeed, asEuint32(slowdown)),
     lastCalculated |-> timestamp]

ComputedAdjustment(prefs, timestamp) ==
    [fontSize |->
         FHEadd(defaultAdjustment.fontSize,
                FHEdiv(prefs.visionSettings, asEuint32(U32(10)))),
     contrastRatio |->
         FHEadd(defaultAdjustment.contrastRatio,
                FHEdiv(prefs.visionSettings, asEuint32(U32(5)))),
     volumeLevel |->
         FHEadd(defaultAdjustment.volumeLevel,
                FHEdiv(prefs.hearingSettings, asEuint32(U32(2)))),
     animationSpeed |->
         FHEsub(defaultAdjustment.animationSpeed,
                FHEdiv(prefs.cognitiveSettings, asEuint32(U32(10)))),
     lastCalculated |-> timestamp]

\* a calculateAdjustments that keeps the values of a record already calculated
\* and only stamps it again
calculateAdjustments_Cached(sender) ==
    LET prefs == userPreferences[sender] IN
    IF ~PreferencesSet(prefs)
    THEN /\ last' = Receipt("calculateAdjustments", sender, PreferencesNotSet, <<>>)
         /\ Reverted
    ELSE /\ uiAdjustments' =
                [uiAdjustments EXCEPT
                     ![sender] = IF isInitialized(@.fontSize)
                                 THEN [@ EXCEPT !.lastCalculated = now]
                                 ELSE ComputedAdjustment(prefs, now)]
         /\ last' = Receipt("calculateAdjustments", sender, Ok,
                            <<Event("AdjustmentCalculated", sender, now)>>)
         /\ UNCHANGED <<userPreferences, defaultAdjustment, now,
                        counterRequest, requestedHandles>>

\* a calculateAdjustments that also takes its result as the new baseline
calculateAdjustments_MovesDefault(sender) ==
    LET prefs == userPreferences[sender] IN
    IF ~PreferencesSet(prefs)
    THEN /\ last' = Receipt("calculateAdjustments", sender, PreferencesNotSet, <<>>)
         /\ Reverted
    ELSE /\ uiAdjustments' =
                [uiAdjustments EXCEPT ![sender] = ComputedAdjustment(prefs, now)]
         /\ defaultAdjustment' = ComputedAdjustment(prefs, now)
         /\ last' = Receipt("calculateAdjustments", sender, Ok,
                            <<Event("AdjustmentCalculated", sender, now)>>)
         /\ UNCHANGED <<userPreferences, now, counterRequest, requestedHandles>>

calculateAdjustments(sender) ==
    LET prefs == userPreferences[sender] IN
    IF ~PreferencesSet(prefs)
    THEN /\ last' = Receipt("calculateAdjustments", sender, PreferencesNotSet, <<>>)
         /\ Reverted
    ELSE /\ uiAdjustments' =
                [uiAdjustments EXCEPT ![sender] = ComputedAdjustment(prefs, now)]
         /\ last' = Receipt("calculateAdjustments", sender, Ok,
                            <<Event("AdjustmentCalculated", sender, now)>>)
         /\ UNCHANGED <<userPreferences, defaultAdjustment, now,
                        counterRequest, requestedHandles>>

-----------------------------------------------------------------------------
(* applyUIAdjustments *)

\* an applyUIAdjustments and a requestAdjustmentDecryption that forgot their
\* require
AdjustmentsCalculated_NoRequire(adjustment) == TRUE

\* require(FHE.isInitialized(adjustment.fontSize), "Adjustments not calculated")
AdjustmentsCalculated(adjustment) == isInitialized(adjustment.fontSize)

applyUIAdjustments(sender) ==
    LET adjustment == uiAdjustments[sender] IN
    IF ~AdjustmentsCalculated(adjustment)
    THEN /\ last' = Receipt("applyUIAdjustments", sender, AdjustmentsNotCalculated, <<>>)
         /\ Reverted
    ELSE /\ last' = Receipt("applyUIAdjustments", sender, Ok,
                            <<Event("UIAdjusted", sender, now)>>)
         /\ UNCHANGED <<userPreferences, uiAdjustments, defaultAdjustment, now,
                        counterRequest, requestedHandles>>

-----------------------------------------------------------------------------
(* resetPreferences *)

\* a resetPreferences that deletes the preferences and forgets the adjustments
resetPreferences_KeepsAdjustments(sender) ==
    /\ userPreferences' = [userPreferences EXCEPT ![sender] = EmptyPreferences]
    /\ last' = Receipt("resetPreferences", sender, Ok,
                       <<Event("PreferencesUpdated", sender, now)>>)
    /\ UNCHANGED <<uiAdjustments, defaultAdjustment, now,
                   counterRequest, requestedHandles>>

\* a resetPreferences that also drops the decryption requests issued so far
resetPreferences_CancelsRequests(sender) ==
    /\ userPreferences' = [userPreferences EXCEPT ![sender] = EmptyPreferences]
    /\ uiAdjustments' = [uiAdjustments EXCEPT ![sender] = EmptyAdjustment]
    /\ requestedHandles' = [r \in RequestIds |-> <<>>]
    /\ last' = Receipt("resetPreferences", sender, Ok,
                       <<Event("PreferencesUpdated", sender, now)>>)
    /\ UNCHANGED <<defaultAdjustment, now, counterRequest>>

\* a resetPreferences that clears the two mappings for every owner
resetPreferences_Everyone(sender) ==
    /\ userPreferences' = [o \in Owners |-> EmptyPreferences]
    /\ uiAdjustments' = [o \in Owners |-> EmptyAdjustment]
    /\ last' = Receipt("resetPreferences", sender, Ok,
                       <<Event("PreferencesUpdated", sender, now)>>)
    /\ UNCHANGED <<defaultAdjustment, now,
                   counterRequest, requestedHandles>>

resetPreferences(sender) ==
    /\ userPreferences' = [userPreferences EXCEPT ![sender] = EmptyPreferences]
    /\ uiAdjustments' = [uiAdjustments EXCEPT ![sender] = EmptyAdjustment]
    /\ last' = Receipt("resetPreferences", sender, Ok,
                       <<Event("PreferencesUpdated", sender, now)>>)
    /\ UNCHANGED <<defaultAdjustment, now,
                   counterRequest, requestedHandles>>

-----------------------------------------------------------------------------
(* requestAdjustmentDecryption *)

\* FHE.requestDecryption: the id is the library's counter, the handles are
\* saved under it and the counter moves on
requestDecryption(ciphertexts) ==
    /\ counterRequest < MaxRequests
    /\ requestedHandles' = [requestedHandles EXCEPT ![counterRequest] = ciphertexts]
    /\ counterRequest' = counterRequest + 1

\* a requestAdjustmentDecryption that hands over the volume level before the
\* contrast ratio
requestAdjustmentDecryption_Reordered(sender) ==
    LET adjustment == uiAdjustments[sender]
        ciphertexts == <<toBytes32(adjustment.fontSize),
                         toBytes32(adjustment.volumeLevel),
                         toBytes32(adjustment.contrastRatio),
                         toBytes32(adjustment.animationSpeed)>>
    IN
    IF ~AdjustmentsCalculated(adjustment)
    THEN /\ last' = Receipt("requestAdjustmentDecryption", sender,
                            AdjustmentsNotCalculated, <<>>)
         /\ Reverted
    ELSE /\ requestDecryption(ciphertexts)
         /\ last' = [Receipt("requestAdjustmentDecryption", sender, Ok, <<>>)
                         EXCEPT !.requestId = counterRequest]
         /\ UNCHANGED <<userPreferences, uiAdjustments, defaultAdjustment, now>>

requestAdjustmentDecryption(sender) ==
    LET adjustment == uiAdjustments[sender]
        ciphertexts == <<toBytes32(adjustment.fontSize),
                         toBytes32(adjustment.contrastRatio),
                         toBytes32(adjustment.volumeLevel),
                         toBytes32(adjustment.animationSpeed)>>
    IN
    IF ~AdjustmentsCalculated(adjustment)
    THEN /\ last' = Receipt("requestAdjustmentDecryption", sender,
                            AdjustmentsNotCalculated, <<>>)
         /\ Reverted
    ELSE /\ requestDecryption(ciphertexts)
         /\ last' = [Receipt("requestAdjustmentDecryption", sender, Ok, <<>>)
                         EXCEPT !.requestId = counterRequest]
         /\ UNCHANGED <<userPreferences, uiAdjustments, defaultAdjustment, now>>

-----------------------------------------------------------------------------
(* The decryption oracle and its callback *)

\* the value of the ciphertext a bytes32 word names
Decrypt(word) == word

\* abi.encode(uint32, uint32, uint32, uint32): one word per value
AbiEncode(values) == values

\* abi.decode(cleartexts, (uint32, uint32, uint32, uint32)) reverts on a
\* payload shorter than four words and ignores what follows them
Decodable(cleartexts) == Len(cleartexts) >= 4

AbiDecode(cleartexts) == SubSeq(cleartexts, 1, 4)

\* a signature binds its signer to the handles and the cleartexts signed
Signature(signer, handles, cleartexts) ==
    [signer |-> signer, handles |-> handles, cleartexts |-> cleartexts]

\* what the oracle answers to request r: the decrypted values and the KMS
\* signature over them
KmsCleartexts(r) ==
    AbiEncode([i \in 1..Len(requestedHandles[r]) |-> Decrypt(requestedHandles[r][i])])

KmsProof(r) == Signature("kms", requestedHandles[r], KmsCleartexts(r))

\* a payload that differs from the oracle's in its first value
Tampered(cleartexts) == [cleartexts EXCEPT ![1] = add32(@, U32(1))]

\* the (cleartexts, proof) pairs a caller hands to the callback with a request
\* id: the oracle's answer to any issued request; the answer to the named
\* request with its payload changed; that answer's payload under a signature
\* of the caller's own; and an empty payload
CallbackInputs(requestId) ==
    { [cleartexts |-> KmsCleartexts(r), proof |-> KmsProof(r)]
          : r \in 0..(counterRequest - 1) }
    \cup { [cleartexts |-> Tampered(KmsCleartexts(r)), proof |-> KmsProof(r)]
          : r \in {requestId} \cap 0..(counterRequest - 1) }
    \cup { [cleartexts |-> KmsCleartexts(r),
            proof |-> Signature("caller", requestedHandles[r], KmsCleartexts(r))]
          : r \in {requestId} \cap 0..(counterRequest - 1) }
    \cup { [cleartexts |-> <<>>, proof |-> Signature("caller", <<>>, <<>>)] }

\* FHE.checkSignatures: the KMS signed these cleartexts for these handles
verifySignatures(handlesList, cleartexts, proof) ==
    /\ proof.signer = "kms"
    /\ proof.handles = handlesList
    /\ proof.cleartexts = cleartexts

\* a callback that is bound to its caller's records: it reverts for a caller
\* without an adjustment record
handleDecryptedAdjustments_OwnRecord(sender, requestId, cleartexts, proof) ==
    LET handlesList == requestedHandles[requestId] IN
    /\ last' =
           IF handlesList = <<>>
           THEN CallbackReceipt(sender, NoHandleFoundForRequestID, <<>>, requestId)
           ELSE IF ~verifySignatures(handlesList, cleartexts, proof)
           THEN CallbackReceipt(sender, InvalidKMSSignatures, <<>>, requestId)
           ELSE IF ~Decodable(cleartexts)
           THEN CallbackReceipt(sender, DecodeFailed, <<>>, requestId)
           ELSE IF ~isInitialized(uiAdjustments[sender].fontSize)
           THEN CallbackReceipt(sender, AdjustmentsNotCalculated, <<>>, requestId)
           ELSE CallbackReceipt(sender, Ok, <<Event("UIAdjusted", sender, now)>>,
                                requestId)
    /\ UNCHANGED <<userPreferences, uiAdjustments, defaultAdjustment, now,
                   counterRequest, requestedHandles>>

handleDecryptedAdjustments(sender, requestId, cleartexts, proof) ==
    LET handlesList == requestedHandles[requestId] IN
    /\ last' =
           IF handlesList = <<>>
           THEN CallbackReceipt(sender, NoHandleFoundForRequestID, <<>>, requestId)
           ELSE IF ~verifySignatures(handlesList, cleartexts, proof)
           THEN CallbackReceipt(sender, InvalidKMSSignatures, <<>>, requestId)
           ELSE IF ~Decodable(cleartexts)
           THEN CallbackReceipt(sender, DecodeFailed, <<>>, requestId)
           ELSE CallbackReceipt(sender, Ok, <<Event("UIAdjusted", sender, now)>>,
                                requestId)
    /\ UNCHANGED <<userPreferences, uiAdjustments, defaultAdjustment, now,
                   counterRequest, requestedHandles>>

-----------------------------------------------------------------------------
(* getAdjustments *)

\* the view returns the five members of the user's entry of the mapping; an
\* entry never written reads as the zero value of the struct
getAdjustments(user) ==
    [status |-> Ok,
     returned |-> <<uiAdjustments[user].fontSize,
                    uiAdjustments[user].contrastRatio,
                    uiAdjustments[user].volumeLevel,
                    uiAdjustments[user].animationSpeed,
                    uiAdjustments[user].lastCalculated>>]

-----------------------------------------------------------------------------
(* The preference catalog of the web client: JSON texts *)

\* the browser sessions that run the client
Clients == {"tab1", "tab2"}

\* Math.random().toString(36).substring(2, 9)
Suffixes == {"q7w2e9r", "k3m8z1c"}

\* A text is a sequence of tokens; a string value is written between quotes.
Quote == "\""

\* the browser's clock when the clients are mounted, in seconds
StartClock == 1

\* `${Date.now()}-${Math.random().toString(36).substring(2, 9)}`
NewPrefId(time, suffix) == <<ToString(time), "-", suffix>>

\* the number a decimal text stands for
ParseInt(text) == CHOOSE n \in 0..(MaxClock + 1) : ToString(n) = text

\* JSON.stringify of a string
JsonString(str) == <<Quote>> \o str \o <<Quote>>

RECURSIVE JsonElements(_)
\* the elements of an array of strings, separated by commas
JsonElements(array) ==
    IF array = <<>> THEN <<>>
    ELSE IF Len(array) = 1 THEN JsonString(array[1])
    ELSE JsonString(array[1]) \o <<",">> \o JsonElements(Tail(array))

\* JSON.stringify of an array of strings
JsonStringify(array) == <<"[">> \o JsonElements(array) \o <<"]">>

\* JSON.stringify of prefData
JsonStringifyPref(pref) ==
    <<"{">> \o JsonString(<<"timestamp">>) \o <<":", ToString(pref.timestamp), ",">>
            \o JsonString(<<"owner">>) \o <<":">> \o JsonString(<<pref.owner>>)
            \o <<"}">>

\* what JSON.parse gives: an array of strings, an object, or a SyntaxError
SyntaxError == [kind |-> "SyntaxError", value |-> <<>>]

RECURSIVE ParseElements(_, _, _)
\* the strings of an array text from position i on, after the strings in acc
ParseElements(text, i, acc) ==
    IF i > Len(text) \/ text[i] # Quote THEN SyntaxError
    ELSE LET closing == {j \in (i + 1)..Len(text) : text[j] = Quote}
         IN  IF closing = {} THEN SyntaxError
             ELSE LET j == CHOOSE m \in closing : \A n \in closing : m <= n
                      str == SubSeq(text, i + 1, j - 1)
                  IN  IF j + 1 > Len(text) THEN SyntaxError
                      ELSE IF text[j + 1] = "]"
                           THEN IF j + 1 = Len(text)
                                THEN [kind |-> "array", value |-> Append(acc, str)]
                                ELSE SyntaxError
                      ELSE IF text[j + 1] = ","
                           THEN ParseElements(text, j + 2, Append(acc, str))
                      ELSE SyntaxError

\* JSON.parse of the texts the client stores: arrays of strings and prefData
JsonParse(text) ==
    IF text = <<>> THEN SyntaxError
    ELSE IF text[1] = "["
         THEN IF text = <<"[", "]">> THEN [kind |-> "array", value |-> <<>>]
              ELSE ParseElements(text, 2, <<>>)
    ELSE IF Len(text) = 15 /\ \E ts \in 0..(MaxTime + 1) :
                text = JsonStringifyPref([timestamp |-> ts, owner |-> text[13]])
         THEN [kind |-> "object",
               value |-> [timestamp |-> ParseInt(text[6]), owner |-> text[13]]]
    ELSE SyntaxError

-----------------------------------------------------------------------------
(* The key-value store *)

\* "preference_keys"
IndexKey == <<"preference_", "keys">>

\* `preference_${prefId}`
BlobKey(id) == <<"preference_">> \o id

\* contract.getData(key): the bytes stored under key, no bytes when none were
getData(key) == IF key \in DOMAIN data THEN data[key] ELSE <<>>

\* the store after contract.setData(key, value)
setData(key, value) ==
    [k \in DOMAIN data \cup {key} |-> IF k = key THEN value ELSE data[k]]

-----------------------------------------------------------------------------
(* The clients: their state, the browser's clock and its timers *)

\* Date.now(), in milliseconds
DateNow == clock * 1000

\* setTransactionStatus({ visible, status, message }), without the text of
\* the message
Status(visible, status) == [visible |-> visible, status |-> status]

\* { visible: false, status: "pending", message: "" }
Hidden == Status(FALSE, "pending")

\* a loadPreferences that is not running
NoLoad == [at |-> "idle", keys |-> <<>>, list |-> <<>>]

\* a loadPreferences that has been called and reads the index next
LoadBegun == [at |-> "index", keys |-> <<>>, list |-> <<>>]

\* prefData before submitPreference has built it
NoPrefData == [timestamp |-> 0, owner |-> ""]

\* the clients as they are mounted: nothing submitted, nothing shown, and
\* the loadPreferences of the mount effect under way
ClientsIdle ==
    /\ clock = StartClock
    /\ pc = [c \in Clients |-> "mount"]
    /\ prefId = [c \in Clients |-> <<>>]
    /\ prefData = [c \in Clients |-> NoPrefData]
    /\ keys = [c \in Clients |-> <<>>]
    /\ transactionStatus = [c \in Clients |-> Hidden]
    /\ timers = [c \in Clients |-> <<>>]
    /\ preferences = [c \in Clients |-> <<>>]
    /\ loads = [c \in Clients |-> LoadBegun]
    /\ calls = 0
    /\ registered = {}

\* an empty store
CatalogInit ==
    /\ data = [k \in {} |-> <<>>]
    /\ ClientsIdle

\* a second of the browser's clock passes
Tick ==
    /\ clock < MaxClock
    /\ clock' = clock + 1
    /\ UNCHANGED <<data, pc, prefId, prefData, keys, transactionStatus, timers,
                   preferences, loads, calls, registered>>

RECURSIVE InsertDue(_, _)
\* a due time put into the pending timers, kept in the order they fall due
InsertDue(due, pending) ==
    IF pending = <<>> THEN <<due>>
    ELSE IF due < pending[1] THEN <<due>> \o pending
    ELSE <<pending[1]>> \o InsertDue(due, Tail(pending))

\* setTimeout(callback, delay): the callback falls due delay ms from now
setTimeout(pending, delay) == InsertDue((DateNow + delay) \div 1000, pending)

\* pending without its i-th timer
Cleared(pending, i) ==
    SubSeq(pending, 1, i - 1) \o SubSeq(pending, i + 1, Len(pending))

\* a callback of setTimeout runs, no sooner than it falls due: the status is
\* hidden again, whatever is shown by then
timeout(c) ==
    /\ \E i \in 1..Len(timers[c]) :
           /\ timers[c][i] <= clock
           /\ timers' = [timers EXCEPT ![c] = Cleared(@, i)]
    /\ transactionStatus' = [transactionStatus EXCEPT ![c] = Hidden]
    /\ UNCHANGED <<clock, data, pc, prefId, prefData, keys, preferences, loads,
                   calls, registered>>

\* loading: true from the mount until the first loadPreferences returns;
\* the client renders its loading screen and no button meanwhile
loading(c) == pc[c] = "mount"

\* creating: set by submitPreference, cleared in its finally; the save
\* button is disabled meanwhile
creating(c) == pc[c] \notin {"mount", "idle"}

-----------------------------------------------------------------------------
(* submitPreference, one step for each call it awaits *)

\* the click on the save button of a client whose wallet is connected, up to
\* await getContractWithSigner(): the status shows the pending submission
submitPreference(c) ==
    /\ ~loading(c) /\ ~creating(c)
    /\ calls < MaxCalls
    /\ calls' = calls + 1
    /\ transactionStatus' =
           [transactionStatus EXCEPT
                ![c] = Status(TRUE, "pending")]
    /\ pc' = [pc EXCEPT ![c] = "getSigner"]
    /\ UNCHANGED <<clock, data, prefId, prefData, keys, timers, preferences,
                   loads, registered>>

\* await getContractWithSigner() returns a contract: prefId is drawn and
\* prefData built, both from the clock of this moment
getSigner(c, suffix) ==
    /\ pc[c] = "getSigner"
    /\ prefId' = [prefId EXCEPT ![c] = NewPrefId(DateNow, suffix)]
    /\ prefData' = [prefData EXCEPT
                        ![c] = [timestamp |-> DateNow \div 1000, owner |-> c]]
    /\ pc' = [pc EXCEPT ![c] = "setBlob"]
    /\ UNCHANGED <<clock, data, keys, transactionStatus, timers, preferences,
                   loads, calls, registered>>

\* a submission that goes on to the index without having stored its blob
setBlob_NotStored(c) ==
    /\ pc[c] = "setBlob"
    /\ pc' = [pc EXCEPT ![c] = "getKeys"]
    /\ UNCHANGED <<clock, data, prefId, prefData, keys, transactionStatus,
                   timers, preferences, loads, calls, registered>>

\* await contract.setData(`preference_${prefId}`, prefData): the bytes built
\* with prefData reach the store
setBlob(c) ==
    /\ pc[c] = "setBlob"
    /\ data' = setData(BlobKey(prefId[c]), JsonStringifyPref(prefData[c]))
    /\ pc' = [pc EXCEPT ![c] = "getKeys"]
    /\ UNCHANGED <<clock, prefId, prefData, keys, transactionStatus, timers,
                   preferences, loads, calls, registered>>

\* the keys of the stored index as the client reads them: none when nothing
\* is stored or the text does not parse
ReadKeys(keysBytes) ==
    IF Len(keysBytes) > 0
    THEN LET parsed == JsonParse(keysBytes)
         IN  IF parsed.kind = "SyntaxError" THEN [kind |-> "array", value |-> <<>>]
             ELSE parsed
    ELSE [kind |-> "array", value |-> <<>>]

\* new Error(message)
Error(message) == [message |-> message]

\* the values an awaited call is rejected with: an error of the wallet, and
\* a value that has no message
Rejections == {Error("user rejected transaction"), [code |-> 4001]}

\* e.message is a string
HasMessage(e) == "message" \in DOMAIN e

\* the catch and the finally of submitPreference for the thrown value e: the
\* status shows the error for three seconds; of a value without a message
\* e.message.includes throws in the catch, and the status stays as it is.
\* creating is cleared, and the call returns with its locals gone
Caught(c, e) ==
    /\ IF HasMessage(e)
       THEN /\ transactionStatus' =
                   [transactionStatus EXCEPT
                        ![c] = Status(TRUE, "error")]
            /\ timers' = [timers EXCEPT ![c] = setTimeout(@, 3000)]
       ELSE UNCHANGED <<transactionStatus, timers>>
    /\ pc' = [pc EXCEPT ![c] = "idle"]
    /\ prefId' = [prefId EXCEPT ![c] = <<>>]
    /\ prefData' = [prefData EXCEPT ![c] = NoPrefData]
    /\ keys' = [keys EXCEPT ![c] = <<>>]

\* await contract.getData("preference_keys"), the parse and keys.push(prefId);
\* push is no function of a value that is not an array
getKeys(c) ==
    /\ pc[c] = "getKeys"
    /\ LET read == ReadKeys(getData(IndexKey))
       IN  IF read.kind = "array"
           THEN /\ keys' = [keys EXCEPT ![c] = Append(read.value, prefId[c])]
                /\ pc' = [pc EXCEPT ![c] = "setKeys"]
                /\ UNCHANGED <<prefId, prefData, transactionStatus, timers>>
           ELSE Caught(c, Error("keys.push is not a function"))
    /\ UNCHANGED <<clock, data, preferences, loads, calls, registered>>

\* await contract.setData("preference_keys", keys), the success status and
\* the call of loadPreferences
setKeys(c) ==
    /\ pc[c] = "setKeys"
    /\ data' = setData(IndexKey, JsonStringify(keys[c]))
    /\ transactionStatus' =
           [transactionStatus EXCEPT
                ![c] = Status(TRUE, "success")]
    /\ registered' = registered \cup {prefId[c]}
    /\ loads' = [loads EXCEPT ![c] = LoadBegun]
    /\ pc' = [pc EXCEPT ![c] = "load"]
    /\ UNCHANGED <<clock, prefId, prefData, keys, timers, preferences,
                   calls>>

\* what submitPreference throws where it stands: the value an awaited call
\* is rejected with, and its own error when there is no contract
Thrown(c) ==
    IF pc[c] = "getSigner"
    THEN Rejections \cup {Error("Failed to get contract with signer")}
    ELSE Rejections

\* an awaited call of submitPreference is rejected, or no contract is
\* returned: the catch takes over
submitFailed(c, e) ==
    /\ pc[c] \in {"getSigner", "setBlob", "getKeys", "setKeys"}
    /\ e \in Thrown(c)
    /\ Caught(c, e)
    /\ UNCHANGED <<clock, data, preferences, loads, calls, registered>>

-----------------------------------------------------------------------------
(* loadPreferences, one step for each read of the store *)

RECURSIVE Insert(_, _)
\* entry put into a list sorted by falling timestamp, after its equals
Insert(entry, list) ==
    IF list = <<>> THEN <<entry>>
    ELSE IF entry.timestamp > list[1].timestamp THEN <<entry>> \o list
    ELSE <<list[1]>> \o Insert(entry, Tail(list))

RECURSIVE SortByTimestamp(_)
\* list.sort((a, b) => b.timestamp - a.timestamp)
SortByTimestamp(list) ==
    IF list = <<>> THEN <<>>
    ELSE LET n == Len(list)
         IN  Insert(list[n], SortByTimestamp(SubSeq(list, 1, n - 1)))

\* what one pass of the loop adds to list for key: the entry of the blob
\* stored under it, nothing when no blob is stored or it does not parse
Loaded(key) ==
    LET prefBytes == getData(BlobKey(key))
        parsed == JsonParse(prefBytes)
    IN  IF Len(prefBytes) > 0 /\ parsed.kind = "object"
        THEN <<[id |-> key, timestamp |-> parsed.value.timestamp,
                owner |-> parsed.value.owner]>>
        ELSE <<>>

\* loadPreferences returns to its caller; submitPreference goes on after it:
\* its timer of two seconds, the finally, and its locals are gone
Returned(c) ==
    /\ pc' = [pc EXCEPT ![c] = "idle"]
    /\ IF pc[c] = "load"
       THEN /\ timers' = [timers EXCEPT ![c] = setTimeout(@, 2000)]
            /\ prefId' = [prefId EXCEPT ![c] = <<>>]
            /\ prefData' = [prefData EXCEPT ![c] = NoPrefData]
            /\ keys' = [keys EXCEPT ![c] = <<>>]
       ELSE UNCHANGED <<timers, prefId, prefData, keys>>

\* the loop of loadPreferences with rest as the keys still to read and list
\* as read so far: after the last key list is sorted and shown
Looped(c, rest, list) ==
    IF rest = <<>>
    THEN /\ preferences' = [preferences EXCEPT ![c] = SortByTimestamp(list)]
         /\ loads' = [loads EXCEPT ![c] = NoLoad]
         /\ Returned(c)
    ELSE /\ loads' = [loads EXCEPT
                          ![c] = [at |-> "blobs", keys |-> rest, list |-> list]]
         /\ UNCHANGED <<preferences, timers, pc, prefId, prefData, keys>>

\* loadPreferences up to await contract.getData("preference_keys") and the
\* parse; a value that is no array cannot be iterated, and the list shown
\* stays
loadPreferences(c) ==
    /\ loads[c].at = "index"
    /\ LET read == ReadKeys(getData(IndexKey))
       IN  IF read.kind = "array"
           THEN Looped(c, read.value, <<>>)
           ELSE /\ loads' = [loads EXCEPT ![c] = NoLoad]
                /\ Returned(c)
                /\ UNCHANGED preferences
    /\ UNCHANGED <<clock, data, transactionStatus, calls, registered>>

\* await contract.getData(`preference_${key}`) of the next key
loadBlob(c) ==
    /\ loads[c].at = "blobs"
    /\ Looped(c, Tail(loads[c].keys), loads[c].list \o Loaded(Head(loads[c].keys)))
    /\ UNCHANGED <<clock, data, transactionStatus, calls, registered>>

\* a call awaited by loadPreferences is rejected, or there is no contract or
\* no service: before the loop the call returns and the list shown stays, in
\* the loop the key is passed over
loadFailed(c) ==
    /\ \/ /\ loads[c].at = "index"
          /\ loads' = [loads EXCEPT ![c] = NoLoad]
          /\ Returned(c)
          /\ UNCHANGED preferences
       \/ /\ loads[c].at = "blobs"
          /\ Looped(c, Tail(loads[c].keys), loads[c].list)
    /\ UNCHANGED <<clock, data, transactionStatus, calls, registered>>

-----------------------------------------------------------------------------
(* checkAvailability *)

\* what checkAvailability shows: the answer of contract.isAvailable(), or
\* that a call it awaited was rejected
Checked == {Status(TRUE, "success"), Status(TRUE, "error")}

\* checkAvailability from the return of the calls it awaits: it has set
\* nothing before them; the status is shown and a timer hides it, after two
\* seconds of a success and three of an error
checkAvailability(c, shown) ==
    /\ ~loading(c)
    /\ calls < MaxCalls
    /\ calls' = calls + 1
    /\ transactionStatus' = [transactionStatus EXCEPT ![c] = shown]
    /\ timers' = [timers EXCEPT
                      ![c] = setTimeout(@, IF shown.status = "success"
                                           THEN 2000 ELSE 3000)]
    /\ UNCHANGED <<clock, data, pc, prefId, prefData, keys, preferences, loads, registered>>

-----------------------------------------------------------------------------
Next ==
    \/ NewBlock /\ UNCHANGED catalog
    \/ /\ \E sender \in Owners : \E t \in InputTuples(sender) :
              updatePreferences(sender, t[1], t[2], t[3], t[4])
       /\ UNCHANGED catalog
    \/ (\E sender \in Owners : calculateAdjustments(sender)) /\ UNCHANGED catalog
    \/ (\E sender \in Owners : applyUIAdjustments(sender)) /\ UNCHANGED catalog
    \/ (\E sender \in Owners : resetPreferences(sender)) /\ UNCHANGED catalog
    \/ (\E sender \in Owners : requestAdjustmentDecryption(sender)) /\ UNCHANGED catalog
    \/ /\ \E sender \in Callers : \E requestId \in RequestIds : \E input \in CallbackInputs(requestId) :
              handleDecryptedAdjustments(sender, requestId, input.cleartexts, input.proof)
       /\ UNCHANGED catalog

\* the contract after construction and the store before any submission
Deployed == Init /\ CatalogInit

\* the contract, next to a catalog nobody writes
Spec == Deployed /\ [][Next]_vars

\* the steps of the clients of the catalog, and the passing of time
CatalogNext ==
    \/ Tick /\ UNCHANGED contract
    \/ (\E c \in Clients : timeout(c)) /\ UNCHANGED contract
    \/ (\E c \in Clients : submitPreference(c)) /\ UNCHANGED contract
    \/ /\ \E c \in Clients : \E suffix \in Suffixes : getSigner(c, suffix)
       /\ UNCHANGED contract
    \/ (\E c \in Clients : setBlob(c)) /\ UNCHANGED contract
    \/ (\E c \in Clients : getKeys(c)) /\ UNCHANGED contract
    \/ (\E c \in Clients : setKeys(c)) /\ UNCHANGED contract
    \/ /\ \E c \in Clients : \E e \in Thrown(c) : submitFailed(c, e)
       /\ UNCHANGED contract
    \/ (\E c \in Clients : loadPreferences(c)) /\ UNCHANGED contract
    \/ (\E c \in Clients : loadBlob(c)) /\ UNCHANGED contract
    \/ (\E c \in Clients : loadFailed(c)) /\ UNCHANGED contract
    \/ /\ \E c \in Clients : \E shown \in Checked : checkAvailability(c, shown)
       /\ UNCHANGED contract

\* the catalog from an empty store, next to a contract nobody calls
CatalogSpec == Deployed /\ [][CatalogNext]_vars

\* a key registered before the clients of the model were mounted
EarlierId == NewPrefId(0, "q7w2e9r")

\* the texts another writer of the store may have left under "preference_keys":
\* the index of the earlier key, that text cut short, and a text that is
\* JSON but no array
StoredIndexTexts ==
    LET index == JsonStringify(<<EarlierId>>)
    IN  {index,
         SubSeq(index, 1, Len(index) - 1),
         JsonStringifyPref([timestamp |-> 0, owner |-> "tab1"])}

\* a store that holds the blob of the earlier key and one of these texts
Damaged ==
    /\ Init
    /\ \E text \in StoredIndexTexts :
           data = [k \in {IndexKey, BlobKey(EarlierId)} |->
                      IF k = IndexKey THEN text
                      ELSE JsonStringifyPref([timestamp |-> 0, owner |-> "tab1"])]
    /\ ClientsIdle

\* the catalog from such a store
DamagedSpec == Damaged /\ [][CatalogNext]_vars

-----------------------------------------------------------------------------
(* Reading the records *)

\* all four handles of a preference record are ciphertexts of 32-bit values
AllInitialized(prefs) ==
    /\ isInitialized(prefs.visionSettings)
    /\ isInitialized(prefs.hearingSettings)
    /\ isInitialized(prefs.mobilitySettings)
    /\ isInitialized(prefs.cognitiveSettings)

\* the natural number n + u, in limbs, without wrapping: above 2^32 - 1 its
\* high limb is no limb of a uint32
NatPlus(n, u) ==
    LET lo == u[2] + n IN <<u[1] + (lo \div Limb), lo % Limb>>

\* the integer n - u, in limbs; below zero it is no uint32
IntMinus(n, u) ==
    IF u[1] = 0 /\ u[2] <= n THEN <<0, n - u[2]>> ELSE <<-1, -1>>

\* the last transaction was a successful call of op
Succeeded(op) == last.op = op /\ last.status = Ok

\* the storage of the two record mappings
records == <<userPreferences, uiAdjustments>>

-----------------------------------------------------------------------------
(* C1 *)

\* C1 as stated: after a successful calculateAdjustments on a submitted tuple
\* of four 32-bit values the stored record holds fontSize = 16 + vision div 10,
\* contrastRatio = 4 + vision div 5, volumeLevel = 50 + hearing div 2 and
\* animationSpeed = 3 - cognitive div 10, as integers.
C1_AsStated ==
    (Succeeded("calculateAdjustments") /\ AllInitialized(userPreferences[last.sender]))
    => LET prefs == userPreferences[last.sender]
           adj == uiAdjustments[last.sender]
       IN  /\ Plain(adj.fontSize) = NatPlus(16, div32(Plain(prefs.visionSettings), U32(10)))
           /\ Plain(adj.contrastRatio) = NatPlus(4, div32(Plain(prefs.visionSettings), U32(5)))
           /\ Plain(adj.volumeLevel) = NatPlus(50, div32(Plain(prefs.hearingSettings), U32(2)))
           /\ Plain(adj.animationSpeed) = IntMinus(3, div32(Plain(prefs.cognitiveSettings), U32(10)))

\* C1, amended: after a successful calculateAdjustments on a submitted tuple of
\* four 32-bit values the stored record holds fontSize = 16 + vision div 10,
\* contrastRatio = 4 + vision div 5, volumeLevel = 50 + hearing div 2 and
\* animationSpeed = (3 - cognitive div 10) mod 2^32, that is, the uint32 that
\* added to cognitive div 10 gives 3 mod 2^32; (40, 60, 0, 30) gives
\* (20, 12, 80, 0); mobility influences no output.
C1_Adjustments ==
    (Succeeded("calculateAdjustments") /\ AllInitialized(userPreferences[last.sender]))
    => LET prefs == userPreferences[last.sender]
           adj == uiAdjustments[last.sender]
       IN  /\ Plain(adj.fontSize) = NatPlus(16, div32(Plain(prefs.visionSettings), U32(10)))
           /\ Plain(adj.contrastRatio) = NatPlus(4, div32(Plain(prefs.visionSettings), U32(5)))
           /\ Plain(adj.volumeLevel) = NatPlus(50, div32(Plain(prefs.hearingSettings), U32(2)))
           /\ add32(Plain(adj.animationSpeed),
                    div32(Plain(prefs.cognitiveSettings), U32(10))) = U32(3)
           /\ \A f \in {"fontSize", "contrastRatio", "volumeLevel", "animationSpeed"} :
                  isInitialized(adj[f])
           /\ (<<prefs.visionSettings, prefs.hearingSettings, prefs.cognitiveSettings>>
                   = <<Enc(40), Enc(60), Enc(30)>>)
              => <<adj.fontSize, adj.contrastRatio, adj.volumeLevel, adj.animationSpeed>>
                     = <<Enc(20), Enc(12), Enc(80), Enc(0)>>

\* the adjustments of (2^32 - 1, 2^32 - 1, 0, 40) have been calculated: the
\* animation speed has wrapped to 2^32 - 1
C1_Witness ==
    /\ Succeeded("calculateAdjustments")
    /\ AllInitialized(userPreferences[last.sender])
    /\ userPreferences[last.sender].cognitiveSettings = Enc(40)
    /\ userPreferences[last.sender].visionSettings = asEuint32(MaxU32)
    /\ uiAdjustments[last.sender].animationSpeed = asEuint32(MaxU32)
    /\ uiAdjustments[last.sender].fontSize = Enc(429496745)

-----------------------------------------------------------------------------
(* C2 *)

\* C2: calculateAdjustments for an owner whose preference record is absent
\* reverts with "Preferences not set", emits nothing and leaves every stored
\* record, the adjustment records included, as it was.
C2_NoPreferences ==
    [][(/\ last'.op = "calculateAdjustments"
        /\ userPreferences[last'.sender] = EmptyPreferences)
       => (/\ last'.status = PreferencesNotSet
           /\ last'.events = <<>>
           /\ uiAdjustments'[last'.sender] = EmptyAdjustment
           /\ UNCHANGED <<userPreferences, uiAdjustments, defaultAdjustment,
                          counterRequest, requestedHandles>>)]_vars

\* an owner without a preference record has called calculateAdjustments; a
\* decryption request was issued before, so records have existed and have been
\* reset since
C2_Witness ==
    /\ last.op = "calculateAdjustments"
    /\ last.sender = "bob"
    /\ last.status = PreferencesNotSet
    /\ userPreferences["bob"] = EmptyPreferences
    /\ userPreferences["alice"] = EmptyPreferences
    /\ uiAdjustments["alice"] = EmptyAdjustment
    /\ counterRequest > 0

-----------------------------------------------------------------------------
(* C3 *)

\* C3: resetPreferences always succeeds, leaves the caller's preference record
\* and adjustment record absent and emits PreferencesUpdated; a
\* calculateAdjustments of the same owner right after it reverts with
\* "Preferences not set".
C3_Reset ==
    [][/\ (last'.op = "resetPreferences")
          => (/\ last'.status = Ok
              /\ userPreferences'[last'.sender] = EmptyPreferences
              /\ uiAdjustments'[last'.sender] = EmptyAdjustment
              /\ last'.events = <<Event("PreferencesUpdated", last'.sender, now)>>)
       /\ (/\ last.op = "resetPreferences"
           /\ last'.op = "calculateAdjustments"
           /\ last'.sender = last.sender)
          => (last'.status = PreferencesNotSet /\ UNCHANGED records)]_vars

\* the reset of an owner that had calculated adjustments (a decryption of them
\* was requested) and the reset of an owner that has no records
C3_Witness ==
    /\ Succeeded("resetPreferences")
    /\ last.sender = "alice"
    /\ userPreferences["alice"] = EmptyPreferences
    /\ uiAdjustments["alice"] = EmptyAdjustment
    /\ counterRequest > 0
    /\ requestedHandles[0][4] = MaxU32

-----------------------------------------------------------------------------
(* C4 *)

\* C4 as stated: in every reachable state an owner with an adjustment record
\* has a preference record, both judged by the tests of the contract's
\* require statements.
C4_AdjustmentsImplyPreferences ==
    \A o \in Owners :
        AdjustmentsCalculated(uiAdjustments[o]) => PreferencesSet(userPreferences[o])

-----------------------------------------------------------------------------
(* Reading the decryption protocol *)

Callback == "handleDecryptedAdjustments"

\* the storage of the contract and of the library in it
storage == <<userPreferences, uiAdjustments, defaultAdjustment,
             counterRequest, requestedHandles>>

\* the request ids issued so far
Issued == {r \in RequestIds : requestedHandles[r] # <<>>}

\* the cleartext tuple kept on an owner's adjustment record, <<>> when the
\* record keeps none
Revealed(o) ==
    IF "revealed" \in DOMAIN uiAdjustments[o] THEN uiAdjustments[o].revealed ELSE <<>>

\* the oracle's answer to request r, handed to the callback by sender, is accepted
GenuineAccepted(sender, r) ==
    ENABLED (/\ handleDecryptedAdjustments(sender, r, KmsCleartexts(r), KmsProof(r))
             /\ last'.status = Ok)

\* the oracle's cleartexts of request r under a signature of the caller's own
\* are refused for the proof
ForgedRefused(sender, r) ==
    ENABLED (/\ handleDecryptedAdjustments(sender, r, KmsCleartexts(r),
                    Signature("caller", requestedHandles[r], KmsCleartexts(r)))
             /\ last'.status = InvalidKMSSignatures)

-----------------------------------------------------------------------------
(* C5 *)

\* C5 as stated: once a callback with a valid proof and a decodable payload has
\* been accepted, the four decoded integers are the revealed tuple of an
\* owner's adjustment record.  The contract decodes them into locals and
\* stores nothing: the formula fails with the first accepted callback.
C5_AsStated ==
    Succeeded(Callback)
    => \E o \in Owners : Revealed(o) = AbiDecode(KmsCleartexts(last.requestId))

-----------------------------------------------------------------------------
(* C6 *)

\* C6 as stated: a callback refused for its proof leaves the request in a
\* terminal state: no callback for the same request is accepted after it.
\* The refusal is a revert, which leaves no trace: the formula fails when the
\* oracle's answer follows a forged one.
C6_AsStated ==
    [][(/\ last.op = Callback
        /\ last.status = InvalidKMSSignatures
        /\ last'.op = Callback
        /\ last'.requestId = last.requestId)
       => last'.status # Ok]_vars

-----------------------------------------------------------------------------
(* C7 *)

\* C7 as stated, for a request that has been rejected: after a callback for a
\* request was refused for its proof or its payload, every further callback
\* for the same request fails with UnknownRequest, whatever it carries.  The
\* refusal is a revert and the request is as it was before: the formula
\* fails with the next callback for the request, which is judged on its proof
\* and payload as the first was.
C7_AsStated ==
    [][(/\ last.op = Callback
        /\ last.status \in {InvalidKMSSignatures, DecodeFailed}
        /\ last'.op = Callback
        /\ last'.requestId = last.requestId)
       => last'.status = NoHandleFoundForRequestID]_vars

-----------------------------------------------------------------------------
(* C8 *)

\* C8: whenever an adjustment record keeps a revealed tuple, the tuple is the
\* cleartext of the four ciphertexts the record holds.
C8_RevealedIsCurrent ==
    \A o \in Owners :
        Revealed(o) # <<>>
        => Revealed(o) = <<Plain(uiAdjustments[o].fontSize),
                           Plain(uiAdjustments[o].contrastRatio),
                           Plain(uiAdjustments[o].volumeLevel),
                           Plain(uiAdjustments[o].animationSpeed)>>

\* an adjustment record keeps a revealed tuple
C8_RevealedPresent == \E o \in Owners : Revealed(o) # <<>>

-----------------------------------------------------------------------------
(* C9 *)

\* C9: requestAdjustmentDecryption of an owner without an adjustment record
\* reverts with "Adjustments not calculated" and issues no request; with the
\* record it issues one request, for the handles of fontSize, contrastRatio,
\* volumeLevel and animationSpeed in this order; it changes no preference
\* record and no adjustment record.
C9_RequestDecryption ==
    [][(last'.op = "requestAdjustmentDecryption")
       => LET adj == uiAdjustments[last'.sender] IN
          /\ UNCHANGED <<userPreferences, uiAdjustments, defaultAdjustment>>
          /\ IF adj = EmptyAdjustment
             THEN /\ last'.status = AdjustmentsNotCalculated
                  /\ UNCHANGED <<counterRequest, requestedHandles>>
             ELSE /\ last'.status = Ok
                  /\ last'.requestId = counterRequest
                  /\ counterRequest' = counterRequest + 1
                  /\ requestedHandles' =
                         [requestedHandles EXCEPT ![counterRequest] =
                              <<adj.fontSize.ct, adj.contrastRatio.ct,
                                adj.volumeLevel.ct, adj.animationSpeed.ct>>]]_vars

\* the adjustments of (40, 60, 0, 30) have been handed to the oracle
C9_Witness ==
    /\ Succeeded("requestAdjustmentDecryption")
    /\ requestedHandles[last.requestId] = <<U32(20), U32(12), U32(80), U32(0)>>
    /\ uiAdjustments[last.sender].volumeLevel = Enc(80)

-----------------------------------------------------------------------------
(* C10 *)

\* C10: applyUIAdjustments of an owner without an adjustment record reverts
\* with "Adjustments not calculated"; with the record it succeeds, whatever
\* requests are outstanding, and emits UIAdjusted; it changes nothing stored.
C10_Apply ==
    [][(last'.op = "applyUIAdjustments")
       => /\ UNCHANGED storage
          /\ IF uiAdjustments[last'.sender] = EmptyAdjustment
             THEN last'.status = AdjustmentsNotCalculated /\ last'.events = <<>>
             ELSE /\ last'.status = Ok
                  /\ last'.events = <<Event("UIAdjusted", last'.sender, now)>>]_vars

\* the adjustments have been applied while a decryption of them is outstanding
C10_Witness ==
    /\ Succeeded("applyUIAdjustments")
    /\ counterRequest > 0
    /\ requestedHandles[counterRequest - 1]
           = <<uiAdjustments[last.sender].fontSize.ct,
               uiAdjustments[last.sender].contrastRatio.ct,
               uiAdjustments[last.sender].volumeLevel.ct,
               uiAdjustments[last.sender].animationSpeed.ct>>

(* Reading the catalog *)

\* the elements of a sequence
Range(seq) == {seq[i] : i \in 1..Len(seq)}

\* the keys the stored index lists: none when it is absent or is no array
IndexKeys ==
    LET read == ReadKeys(getData(IndexKey))
    IN  IF read.kind = "array" THEN read.value ELSE <<>>

\* a blob is stored under the key of id
Populated(id) == Len(getData(BlobKey(id))) > 0

\* no submission is under way
AllCompleted == \A c \in Clients : pc[c] \in {"mount", "idle", "load"}

\* no element of the sequence occurs twice
Distinct(seq) == \A i, j \in 1..Len(seq) : seq[i] = seq[j] => i = j

-----------------------------------------------------------------------------
(* C11 *)

\* C11 as stated: once the concurrent submissions of distinct new keys have all
\* completed, the stored index lists the key of every submission that reported
\* success: no registration is lost.
C11_NoLostKey == AllCompleted => registered \subseteq Range(IndexKeys)

-----------------------------------------------------------------------------
(* C12 *)

\* C12 as stated: the stored index never lists a key twice, however often the
\* same key is submitted.
C12_NoDuplicateKey == Distinct(IndexKeys)

-----------------------------------------------------------------------------
(* C13 *)

\* C13: in every state, the states between the store calls of concurrent
\* submissions included, every key the stored index lists has a blob stored
\* under "preference_<key>".
C13_IndexedKeysPopulated == \A id \in Range(IndexKeys) : Populated(id)

\* the index lists a key while another submission has stored its blob and has
\* still to store the index it read
C13_Witness ==
    \E c \in Clients :
        /\ pc[c] = "setKeys"
        /\ Len(IndexKeys) >= 1
        /\ prefId[c] \notin Range(IndexKeys)
        /\ Populated(prefId[c])

-----------------------------------------------------------------------------
(* C14 *)

\* C14 as stated: a submission that fails leaves the catalog as it was before
\* the call; after the first submission on an empty store has failed, the
\* store is empty again: no blob stays without its key in the index.
C14_AllOrNothing ==
    (/\ calls = 1
     /\ AllCompleted
     /\ registered = {})
        => DOMAIN data = {}

-----------------------------------------------------------------------------
(* C15 *)

\* the text is stored and is not the text of an array of keys
Malformed(text) == Len(text) > 0 /\ JsonParse(text).kind # "array"

\* C15 as stated, for the index: while the text stored under "preference_keys"
\* does not parse as an array of keys, no submission stores another index in
\* its place (it fails and keeps what is stored).
C15_MalformedIndexKept ==
    [][Malformed(getData(IndexKey)) => getData(IndexKey)' = getData(IndexKey)]_vars

-----------------------------------------------------------------------------
(* C16 *)

\* the owners whose adjustment record is known to be absent: every owner right
\* after construction, the caller right after a successful resetPreferences
KnownAbsent ==
    IF last.op = "constructor" THEN Owners
    ELSE IF Succeeded("resetPreferences") THEN {last.sender}
    ELSE {}

\* C16 as stated: getAdjustments of an owner who never calculated adjustments,
\* or who has reset, fails (NotFound) and returns no value.  The view has no
\* require: the formula fails right after construction.
C16_AsStated ==
    \A user \in KnownAbsent : getAdjustments(user).status # Ok

-----------------------------------------------------------------------------
(* C17 *)

\* C17: in every state, whatever record the owner has, updatePreferences with
\* four handles succeeds, leaves the owner's record made of exactly these
\* handles and the current block time (so a repeated call with the same handles
\* leaves the same handles under the time of the later call), and emits
\* PreferencesUpdated for the owner.
C17_Replaces ==
    \A sender \in Owners : \A t \in InputTuples(sender) :
        /\ ENABLED updatePreferences(sender, t[1], t[2], t[3], t[4])
        /\ ~ENABLED (/\ updatePreferences(sender, t[1], t[2], t[3], t[4])
                     /\ ~(/\ userPreferences'[sender] =
                                [visionSettings |-> t[1], hearingSettings |-> t[2],
                                 mobilitySettings |-> t[3], cognitiveSettings |-> t[4],
                                 lastUpdated |-> now]
                          /\ last'.status = Ok
                          /\ last'.events = <<Event("PreferencesUpdated", sender, now)>>))

\* alice has submitted the example tuple again at time 2, over the record her
\* adjustments were calculated from at time 1
C17_Witness ==
    /\ Succeeded("updatePreferences")
    /\ last.sender = "alice"
    /\ now = 2
    /\ userPreferences["alice"] = StoredPreferences(Enc(40), Enc(60), Enc(0), Enc(30), 2)
    /\ uiAdjustments["alice"].fontSize = Enc(20)
    /\ uiAdjustments["alice"].lastCalculated = 1

-----------------------------------------------------------------------------
(* C18 *)

\* the adjustment values that follow from a preference record and the default
\* constants alone
FromPreferences(prefs) ==
    <<add32(U32(DefaultFontSize), div32(Plain(prefs.visionSettings), U32(10))),
      add32(U32(DefaultContrastRatio), div32(Plain(prefs.visionSettings), U32(5))),
      add32(U32(DefaultVolumeLevel), div32(Plain(prefs.hearingSettings), U32(2))),
      sub32(U32(DefaultAnimationSpeed), div32(Plain(prefs.cognitiveSettings), U32(10)))>>

\* C18: from every state, whatever adjustment record the owner already has,
\* a successful calculateAdjustments stores the four values that follow from
\* the owner's current preference record and the default constants, under the
\* current block time: a repeated call with unchanged preferences stores the
\* same values again, over the record before.
C18_HistoryIndependent ==
    [][(last'.op = "calculateAdjustments" /\ last'.status = Ok)
           => /\ PreferencesSet(userPreferences[last'.sender])
              /\ uiAdjustments'[last'.sender].lastCalculated = now
              /\ <<uiAdjustments'[last'.sender].fontSize.ct,
                   uiAdjustments'[last'.sender].contrastRatio.ct,
                   uiAdjustments'[last'.sender].volumeLevel.ct,
                   uiAdjustments'[last'.sender].animationSpeed.ct>>
                     = FromPreferences(userPreferences[last'.sender])]_vars

\* alice has calculated at time 2 from preferences changed since her first
\* calculation, whose values the first request still holds
C18_Witness ==
    /\ Succeeded("calculateAdjustments")
    /\ last.sender = "alice"
    /\ uiAdjustments["alice"].lastCalculated = 2
    /\ uiAdjustments["alice"].fontSize = Enc(429496745)
    /\ requestedHandles[0] = <<U32(20), U32(12), U32(80), U32(0)>>
    /\ userPreferences["bob"] = EmptyPreferences
    /\ uiAdjustments["bob"] = EmptyAdjustment

-----------------------------------------------------------------------------
(* C19 *)

\* C19: a transaction of one owner (updatePreferences, calculateAdjustments,
\* resetPreferences, applyUIAdjustments, requestAdjustmentDecryption), whether
\* it succeeds or reverts, leaves the preference record and the adjustment
\* record of every other owner as they were; a callback that reverts leaves
\* the records of every owner as they were.
C19_OtherOwnersUntouched ==
    [][\A b \in Owners :
           (b # last'.sender \/ (last'.op = Callback /\ last'.status # Ok))
               => /\ userPreferences'[b] = userPreferences[b]
                  /\ uiAdjustments'[b] = uiAdjustments[b]]_vars

\* alice has reset while bob holds a preference record and an adjustment record
C19_Witness ==
    /\ Succeeded("resetPreferences")
    /\ last.sender = "alice"
    /\ AllInitialized(userPreferences["bob"])
    /\ isInitialized(uiAdjustments["bob"].fontSize)

-----------------------------------------------------------------------------
(* C20 *)

\* C20: a request that was issued stays as it is under every step that is no
\* callback: updatePreferences, calculateAdjustments, resetPreferences,
\* applyUIAdjustments, further requests and the passing of time leave its
\* saved handles untouched, and in every state the oracle's answer to it is
\* still awaited and accepted: nothing cancels it, resolves it or times it out.
C20_PendingStays ==
    /\ [][(last'.op # Callback)
              => \A r \in Issued : requestedHandles'[r] = requestedHandles[r]]_vars
    /\ [](\A r \in Issued : \E sender \in Callers : GenuineAccepted(sender, r))

\* alice has issued a second request, for values calculated anew, while the
\* answer to her first request is still accepted
C20_Witness ==
    /\ Succeeded("requestAdjustmentDecryption")
    /\ last.sender = "alice"
    /\ last.requestId = 1
    /\ requestedHandles[0][4] = MaxU32
    /\ requestedHandles[1] = <<U32(20), U32(12), U32(80), U32(0)>>
    /\ GenuineAccepted("alice", 0)

-----------------------------------------------------------------------------
(* C21 *)

\* C21: in every state the baseline defaultAdjustment holds fontSize 16,
\* contrastRatio 4, volumeLevel 50 and animationSpeed 3, as the constructor
\* set it: no transaction changes it.
C21_DefaultsFixed ==
    /\ <<Plain(defaultAdjustment.fontSize), Plain(defaultAdjustment.contrastRatio),
         Plain(defaultAdjustment.volumeLevel), Plain(defaultAdjustment.animationSpeed)>>
           = <<U32(16), U32(4), U32(50), U32(3)>>
    /\ \A f \in {"fontSize", "contrastRatio", "volumeLevel", "animationSpeed"} :
           isInitialized(defaultAdjustment[f])
    /\ defaultAdjustment.lastCalculated = DeployTime

\* in a later block, after adjustments were calculated, requested and reset and
\* after the last request was answered, the baseline is the constructor's
C21_Witness ==
    /\ Succeeded(Callback)
    /\ now = 2
    /\ counterRequest = 2
    /\ \A o \in Owners : uiAdjustments[o] = EmptyAdjustment
    /\ defaultAdjustment.volumeLevel = Enc(50)

-----------------------------------------------------------------------------
(* C22 *)

\* C22: a calculateAdjustments on a preference record whose cognitive value
\* divided by 10 exceeds 3 has succeeded like any other, and the stored
\* animationSpeed is 3 - cognitive div 10 wrapped into 32 bits (2^32 - 1 for
\* cognitive 40), never 0; fontSize, contrastRatio and volumeLevel are the sums
\* taken mod 2^32.
C22_NoClamp ==
    \A o \in Owners :
        LET prefs == userPreferences[o]
            adj == uiAdjustments[o]
            q == div32(Plain(prefs.cognitiveSettings), U32(10))
        IN  (/\ last.op = "calculateAdjustments"
             /\ last.sender = o
             /\ AllInitialized(prefs)
             /\ (q[1] > 0 \/ q[2] > 3))
            => /\ last.status = Ok
               /\ Plain(adj.animationSpeed) = sub32(U32(3), q)
               /\ Plain(adj.animationSpeed) # U32(0)
               /\ (q = U32(4)) => (Plain(adj.animationSpeed) = MaxU32)
               /\ Plain(adj.fontSize)
                      = add32(U32(16), div32(Plain(prefs.visionSettings), U32(10)))
               /\ Plain(adj.contrastRatio)
                      = add32(U32(4), div32(Plain(prefs.visionSettings), U32(5)))
               /\ Plain(adj.volumeLevel)
                      = add32(U32(50), div32(Plain(prefs.hearingSettings), U32(2)))

\* alice's adjustments of (2^32 - 1, 2^32 - 1, 0, 40) were calculated in the
\* first block: animationSpeed is 2^32 - 1 and volumeLevel 2147483697
C22_Witness ==
    /\ last = Receipt("calculateAdjustments", "alice", Ok,
                      <<Event("AdjustmentCalculated", "alice", 1)>>)
    /\ userPreferences["alice"].cognitiveSettings = Enc(40)
    /\ uiAdjustments["alice"].animationSpeed = asEuint32(MaxU32)
    /\ uiAdjustments["alice"].volumeLevel = asEuint32(<<32768, 49>>)

-----------------------------------------------------------------------------
(* C23 *)

\* the four handles of an adjustment record, in the order of a request
HandlesOf(adjustment) ==
    <<toBytes32(adjustment.fontSize), toBytes32(adjustment.contrastRatio),
      toBytes32(adjustment.volumeLevel), toBytes32(adjustment.animationSpeed)>>

\* C23: updatePreferences leaves every adjustment record as it is, the
\* caller's included; right after it, an owner with an adjustment record can
\* still apply it and request its decryption, and the request saves the
\* handles calculated from the preferences before.
C23_AdjustmentsKept ==
    /\ \A sender \in Owners : \A t \in InputTuples(sender) :
           ~ENABLED (/\ updatePreferences(sender, t[1], t[2], t[3], t[4])
                     /\ uiAdjustments' # uiAdjustments)
    /\ (/\ Succeeded("updatePreferences")
        /\ isInitialized(uiAdjustments[last.sender].fontSize))
       => /\ ENABLED (/\ applyUIAdjustments(last.sender)
                      /\ last'.status = Ok)
          /\ (counterRequest < MaxRequests)
             => ENABLED (/\ requestAdjustmentDecryption(last.sender)
                         /\ last'.status = Ok
                         /\ requestedHandles'[counterRequest]
                                = HandlesOf(uiAdjustments[last.sender]))

\* alice has replaced the preferences (2^32 - 1, 2^32 - 1, 0, 40) by the
\* example tuple in a later block; her adjustment record is still the one
\* calculated before
C23_Witness ==
    /\ Succeeded("updatePreferences")
    /\ last.sender = "alice"
    /\ userPreferences["alice"] = StoredPreferences(Enc(40), Enc(60), Enc(0), Enc(30), 2)
    /\ uiAdjustments["alice"].animationSpeed = asEuint32(MaxU32)
    /\ uiAdjustments["alice"].lastCalculated = 1
    /\ counterRequest < MaxRequests

-----------------------------------------------------------------------------
(* C24 *)

\* C24: a calculateAdjustments has succeeded exactly when the caller's stored
\* vision handle is initialized, whatever the other three handles are; an
\* applyUIAdjustments and a requestAdjustmentDecryption have succeeded exactly
\* when the caller's stored fontSize handle is initialized; and right after an
\* updatePreferences with an uninitialized vision handle calculateAdjustments
\* reverts with "Preferences not set".
C24_SingleField ==
    /\ (last.op = "calculateAdjustments")
       => /\ (last.status = Ok)
                 <=> isInitialized(userPreferences[last.sender].visionSettings)
          /\ (last.status # Ok) => (last.status = PreferencesNotSet)
    /\ (last.op \in {"applyUIAdjustments", "requestAdjustmentDecryption"})
       => /\ (last.status = Ok)
                 <=> isInitialized(uiAdjustments[last.sender].fontSize)
          /\ (last.status # Ok) => (last.status = AdjustmentsNotCalculated)
    /\ (/\ Succeeded("updatePreferences")
        /\ ~isInitialized(userPreferences[last.sender].visionSettings))
       => ENABLED (/\ calculateAdjustments(last.sender)
                   /\ last'.status = PreferencesNotSet
                   /\ UNCHANGED storage)

\* alice's adjustments were calculated from a record whose mobility handle is
\* uninitialized
C24_Witness ==
    /\ Succeeded("calculateAdjustments")
    /\ last.sender = "alice"
    /\ ~isInitialized(userPreferences["alice"].mobilitySettings)
    /\ isInitialized(userPreferences["alice"].visionSettings)
    /\ uiAdjustments["alice"].lastCalculated = now

-----------------------------------------------------------------------------
(* C25 *)

\* C25: in every state, whoever holds which records, every address can deliver
\* the oracle's answer to every issued request: the callback succeeds, names
\* its caller in UIAdjusted and leaves the two record mappings as they are;
\* and from every address the same cleartexts under a proof the oracle did not
\* sign are refused: the signature check alone decides.
C25_CallbackUnbound ==
    \A r \in Issued : \A sender \in Callers :
        /\ ENABLED (/\ handleDecryptedAdjustments(sender, r, KmsCleartexts(r), KmsProof(r))
                    /\ last' = CallbackReceipt(sender, Ok,
                                   <<Event("UIAdjusted", sender, now)>>, r)
                    /\ UNCHANGED records)
        /\ ForgedRefused(sender, r)

\* bob, who has no record, has delivered the answer to the request for alice's
\* adjustments of (2^32 - 1, 2^32 - 1, 0, 40), and UIAdjusted names bob
C25_Witness ==
    /\ last = CallbackReceipt("bob", Ok, <<Event("UIAdjusted", "bob", now)>>, 0)
    /\ HandlesOf(uiAdjustments["alice"]) = requestedHandles[0]
    /\ requestedHandles[0][4] = MaxU32
    /\ userPreferences["bob"] = EmptyPreferences
    /\ uiAdjustments["bob"] = EmptyAdjustment

-----------------------------------------------------------------------------
=============================================================================
